---- MODULE Spec2Model ----
(***************************************************************************)
(* MoviWeb: the DataManager (src/data_manager.py), the two tables of       *)
(* src/models.py and the request handlers of src/app.py that call it.      *)
(*                                                                         *)
(* A Python str is a sequence of one-character strings, so that strip(),   *)
(* upper(), split() and int() are computed and not assumed.  Python's None *)
(* is the value None below; an absent Integer column is NoYear.            *)
(***************************************************************************)
EXTENDS Integers, Sequences, FiniteSets, TLC

\* ------------------------------------------------------------------ bounds
MaxMovieId == 2

\* ------------------------------------------------------------- Python values
None == <<"None">>

\* A NULL year column.  _parse_year never yields a negative number: it cuts
\* its argument at the first "-" before calling int().
NoYear == -1

EmptyDict == <<>>

\* bool(v) of a str or None
Truthy(v) == v # None /\ v # <<>>

\* a or b
Or(a, b) == IF Truthy(a) THEN a ELSE b

\* dict.get(k)
Get(d, k) == IF k \in DOMAIN d THEN d[k] ELSE None

RECURSIVE LStrip(_)
LStrip(s) == IF s = <<>> THEN s
             ELSE IF Head(s) = " " THEN LStrip(Tail(s)) ELSE s

RECURSIVE RStrip(_)
RStrip(s) == IF s = <<>> THEN s
             ELSE IF s[Len(s)] = " " THEN RStrip(SubSeq(s, 1, Len(s) - 1)) ELSE s

\* str.strip()
Strip(s) == RStrip(LStrip(s))

UpperChar(c) == CASE c = "n" -> "N"
                  [] c = "a" -> "A"
                  [] c = "x" -> "X"
                  [] OTHER   -> c

\* str.upper()
Upper(s) == [i \in DOMAIN s |-> UpperChar(s[i])]

\* s.split(sep)[0], sep one character
RECURSIVE SplitFirst(_, _)
SplitFirst(s, sep) == IF s = <<>> THEN s
                      ELSE IF Head(s) = sep THEN <<>>
                      ELSE <<Head(s)>> \o SplitFirst(Tail(s), sep)

\* The en dash U+2013 of a year range (the module text is ASCII).
EnDash == "~"

DigitChars == {"0", "1", "2", "3", "4", "5", "6", "7", "8", "9"}

DigitVal(c) == CASE c = "0" -> 0 [] c = "1" -> 1 [] c = "2" -> 2 [] c = "3" -> 3
                 [] c = "4" -> 4 [] c = "5" -> 5 [] c = "6" -> 6 [] c = "7" -> 7
                 [] c = "8" -> 8 [] c = "9" -> 9

\* whether int(s) returns (decimal digits, blanks around them allowed)
IntOk(s) == LET t == Strip(s)
            IN  t # <<>> /\ \A i \in DOMAIN t : t[i] \in DigitChars

RECURSIVE DigitsVal(_)
DigitsVal(t) == IF t = <<>> THEN 0
                ELSE 10 * DigitsVal(SubSeq(t, 1, Len(t) - 1)) + DigitVal(t[Len(t)])

\* int(s), where IntOk(s)
IntVal(s) == DigitsVal(Strip(s))

\* DataManager._clean
clean(v) == IF v = None \/ Upper(Strip(v)) = <<"N", "/", "A">> THEN None
            ELSE Strip(v)

\* DataManager._parse_year
parse_year(y) ==
    IF y = None THEN NoYear
    ELSE LET s == Strip(y)
         IN  IF s = <<>> THEN NoYear
             ELSE LET p == SplitFirst(SplitFirst(s, EnDash), "-")
                  IN  IF IntOk(p) THEN IntVal(p) ELSE NoYear

\* ------------------------------------------------------------------- state
VARIABLES
    omdb_key,     \* DataManager.omdb_key: os.getenv("OMDB_API_KEY")
    users,        \* the rows of table "users"
    movies,       \* the rows of table "movies"
    loggedIn,     \* ids of the users some client's session is logged in as
    registered,   \* history: the <<name, password>> arguments register_user accepted
    last          \* history: the last call, its arguments and how it ended

vars == <<omdb_key, users, movies, loggedIn, registered, last>>

\* AppError.status_code and its subclasses'; an exception that is no AppError
\* passes the handlers' "except AppError" and ends in the 500 handler.
status_code(error) == CASE error = ""                -> 0
                        [] error = "AppError"        -> 400
                        [] error = "ValidationError" -> 400
                        [] error = "AuthError"       -> 401
                        [] error = "NotFoundError"   -> 404
                        [] OTHER                     -> 500

\* INTEGER PRIMARY KEY of SQLite: one more than the largest id in the table
NewId(rows) == IF rows = {} THEN 1
               ELSE (CHOOSE i \in {r.id : r \in rows} :
                        \A j \in {r.id : r \in rows} : j <= i) + 1

\* Model.query.get(id): the set holding the row, empty when there is none
Row(rows, id) == {r \in rows : r.id = id}

\* werkzeug.security: a salted one-way digest, as a symbolic term
Digest(salt, password) == <<"pbkdf2", salt, password>>
generate_password_hash(password, salt) ==
    [salt |-> salt, digest |-> Digest(salt, password)]
check_password_hash_unsalted(pwhash, password) ==
    pwhash.digest = Digest("", password)
check_password_hash(pwhash, password) ==
    pwhash.digest = Digest(pwhash.salt, password)

\* the outcome of a call that touched nothing
Raise(error) == [error |-> error, users |-> users, movies |-> movies,
                 result |-> 0, commit |-> "none", fetch |-> "none",
                 data |-> EmptyDict]

\* session.commit(): it stores the pending rows, or it raises the engine's
\* exception and the transaction's changes are not stored.
Commit(commit_ok, newUsers, newMovies, result, fetch, data) ==
    IF commit_ok
    THEN [error |-> "", users |-> newUsers, movies |-> newMovies,
          result |-> result, commit |-> "ok", fetch |-> fetch, data |-> data]
    ELSE [error |-> "SQLAlchemyError", users |-> users, movies |-> movies,
          result |-> 0, commit |-> "fail", fetch |-> fetch, data |-> data]

\* ------------------------------------------------------------------- users
\* User.query.filter_by(name=name).first()
name_never_taken(name) == {}
UserByName(name) == {u \in users : u.name = name}

\* DataManager.register_user
register_user(name, password, salt, commit_ok) ==
    LET n == Strip(Or(name, <<>>))
    IN  IF ~Truthy(n) THEN Raise("ValidationError")
        ELSE IF ~Truthy(password) THEN Raise("ValidationError")
        ELSE IF UserByName(n) # {} THEN Raise("ValidationError")
        ELSE LET user == [id |-> NewId(users), name |-> n,
                          password_hash |-> generate_password_hash(password, salt)]
             IN  Commit(commit_ok, users \cup {user}, movies, user.id, "none",
                        EmptyDict)

\* DataManager.authenticate: the user's id, or 0 for AuthError
authenticate(name, password) ==
    LET n == Strip(Or(name, <<>>))
        found == UserByName(n)
    IN  IF found = {} THEN 0
        ELSE LET user == CHOOSE u \in found : TRUE
             IN  IF check_password_hash(user.password_hash, password)
                 THEN user.id ELSE 0

\* DataManager.get_user
get_user(user_id) == Row(users, user_id)

\* ------------------------------------------------------------------ movies
\* the text columns of Movie that both add and refresh fill through _clean
TextFields == {"director", "poster_url", "plot", "writer", "actors", "genre",
               "runtime", "released", "rated", "language", "country", "awards",
               "imdb_rating"}

\* update_movie's allow-list
allowed == TextFields \cup {"name", "year"}

\* the OMDb key a Movie column is read from
OmdbKey(k) == CASE k = "name"        -> "Title"
                [] k = "year"        -> "Year"
                [] k = "director"    -> "Director"
                [] k = "poster_url"  -> "Poster"
                [] k = "plot"        -> "Plot"
                [] k = "writer"      -> "Writer"
                [] k = "actors"      -> "Actors"
                [] k = "genre"       -> "Genre"
                [] k = "runtime"     -> "Runtime"
                [] k = "released"    -> "Released"
                [] k = "rated"       -> "Rated"
                [] k = "language"    -> "Language"
                [] k = "country"     -> "Country"
                [] k = "awards"      -> "Awards"
                [] k = "imdb_rating" -> "imdbRating"
                [] k = "imdb_id"     -> "imdbID"

\* DataManager.get_movies: the user's rows, largest id first
RECURSIVE DescById(_)
DescById(rows) ==
    IF rows = {} THEN <<>>
    ELSE LET top == CHOOSE r \in rows : \A q \in rows : q.id <= r.id
         IN  <<top>> \o DescById(rows \ {top})

get_movies(user_id) == DescById({m \in movies : m.user_id = user_id})

\* DataManager._fetch_from_omdb; outcome is what the HTTP request does:
\* [ok |-> FALSE] a RequestException, [ok |-> TRUE, body |-> the JSON object]
fetch_from_omdb(title, imdb_id, outcome) ==
    IF ~Truthy(omdb_key)
    THEN [error |-> "", data |-> EmptyDict, fetch |-> "none"]
    ELSE IF ~Truthy(imdb_id) /\ ~Truthy(title)
    THEN [error |-> "", data |-> EmptyDict, fetch |-> "none"]
    ELSE IF ~outcome.ok
    THEN [error |-> "AppError", data |-> EmptyDict, fetch |-> "fail"]
    ELSE IF Get(outcome.body, "Response") = <<"F", "a", "l", "s", "e">>
    THEN [error |-> "", data |-> EmptyDict, fetch |-> "notfound"]
    ELSE [error |-> "", data |-> outcome.body, fetch |-> "ok"]

\* DataManager.add_movie_by_title
add_movie_by_title(user_id, title, outcome, commit_ok) ==
    LET t == Strip(Or(title, <<>>))
    IN  IF ~Truthy(t) THEN Raise("ValidationError")
        ELSE LET got == IF Truthy(omdb_key) THEN fetch_from_omdb(t, None, outcome)
                        ELSE [error |-> "", data |-> EmptyDict, fetch |-> "none"]
                 data == got.data
                 movie == [k \in {"id", "user_id", "name", "year", "imdb_id"}
                                 \cup TextFields |->
                            CASE k = "id"      -> NewId(movies)
                              [] k = "user_id" -> user_id
                              [] k = "name"    -> Or(Get(data, "Title"), t)
                              [] k = "year"    -> parse_year(Get(data, "Year"))
                              [] OTHER         -> clean(Get(data, OmdbKey(k)))]
             IN  IF got.error # ""
                 THEN [Raise(got.error) EXCEPT !.fetch = got.fetch]
                 ELSE Commit(commit_ok, users, movies \cup {movie}, movie.id,
                             got.fetch, data)

\* "if v not in (None, "", "N/A")" of refresh_movie_from_omdb
RefreshSkips(k, v) == IF k = "year" THEN v = NoYear
                      ELSE v \in {None, <<>>, <<"N", "/", "A">>}

\* DataManager.refresh_movie_from_omdb
refresh_movie_from_omdb(movie_id, outcome, commit_ok) ==
    IF Row(movies, movie_id) = {} THEN Raise("NotFoundError")
    ELSE IF ~Truthy(omdb_key) THEN Raise("ValidationError")
    ELSE LET movie == CHOOSE m \in Row(movies, movie_id) : TRUE
             got == fetch_from_omdb(movie.name, movie.imdb_id, outcome)
             data == got.data
             updates == [k \in allowed \cup {"imdb_id"} |->
                           CASE k = "name"    -> Get(data, "Title")
                             [] k = "year"    -> parse_year(Get(data, "Year"))
                             [] k = "imdb_id" -> Or(clean(Get(data, "imdbID")),
                                                    movie.imdb_id)
                             [] OTHER         -> clean(Get(data, OmdbKey(k)))]
             merged == [k \in DOMAIN movie |->
                          IF k \in DOMAIN updates /\ ~RefreshSkips(k, updates[k])
                          THEN updates[k] ELSE movie[k]]
         IN  IF got.error # ""
             THEN [Raise(got.error) EXCEPT !.fetch = got.fetch]
             ELSE Commit(commit_ok, users, (movies \ {movie}) \cup {merged},
                         movie_id, got.fetch, data)

\* "if v not in (None, "")" of update_movie
UpdateSkipsNoneOnly(k, v) == IF k = "year" THEN v = NoYear ELSE v = None
UpdateSkips(k, v) == IF k = "year" THEN v = NoYear ELSE v \in {None, <<>>}

\* DataManager.update_movie
update_movie(movie_id, fields, commit_ok) ==
    IF Row(movies, movie_id) = {} THEN Raise("NotFoundError")
    ELSE LET movie == CHOOSE m \in Row(movies, movie_id) : TRUE
             cl == [k \in DOMAIN fields \cap allowed |->
                      IF k = "year" THEN parse_year(fields[k]) ELSE fields[k]]
             changed == [k \in DOMAIN movie |->
                           IF k \in DOMAIN cl /\ ~UpdateSkips(k, cl[k])
                           THEN cl[k] ELSE movie[k]]
         IN  Commit(commit_ok, users, (movies \ {movie}) \cup {changed},
                    movie_id, "none", EmptyDict)

\* Movie.query.filter_by(id=movie_id, user_id=user_id).first()
FavoriteOfAnyUser(user_id, movie_id) == {m \in movies : m.id = movie_id}
Favorite(user_id, movie_id) ==
    {m \in movies : m.id = movie_id /\ m.user_id = user_id}

\* DataManager.remove_favorite
remove_favorite(user_id, movie_id, commit_ok) ==
    IF Favorite(user_id, movie_id) = {} THEN Raise("NotFoundError")
    ELSE Commit(commit_ok, users, movies \ Favorite(user_id, movie_id), 0,
                "none", EmptyDict)

\* ------------------------------------------------------------------ inputs
OmdbKeys == {None, <<"k">>}

NameInputs == {None, <<>>, <<" ">>, <<"a">>, <<" ", "a", " ">>, <<"b">>}

PasswordInputs == {None, <<>>, <<"p">>, <<"q">>}

Salts == {"s1", "s2"}

TitleInputs == {None, <<" ">>, <<"T">>, <<" ", "T">>}

\* JSON objects OMDb may answer with
NotFoundPayload == [Response |-> <<"F", "a", "l", "s", "e">>]

FullPayload ==
    [Response |-> <<"T", "r", "u", "e">>, Title |-> <<"T">>,
     Year |-> <<"1", "9", "9", "0", "~", "1", "9", "9", "3">>,
     Director |-> <<"x">>, Poster |-> <<"x">>,
     Plot |-> <<"x">>, Writer |-> <<"x">>, Actors |-> <<"x">>, Genre |-> <<"x">>,
     Runtime |-> <<"x">>, Released |-> <<"x">>, Rated |-> <<"x">>,
     Language |-> <<"x">>, Country |-> <<"x">>, Awards |-> <<"x">>,
     imdbRating |-> <<"x">>, imdbID |-> <<"i">>]

SentinelPayload ==
    [Response |-> <<"T", "r", "u", "e">>, Title |-> <<"n", "/", "a">>,
     Year |-> <<"N", "/", "A">>, Director |-> <<"n", "/", "a">>,
     Poster |-> <<" ", "N", "/", "A", " ">>, Plot |-> <<>>,
     Writer |-> <<"N", "/", "a">>, Actors |-> <<"N", "/", "A">>,
     imdbRating |-> <<"N", "/", "A">>, imdbID |-> <<"N", "/", "A">>]

Payloads == {NotFoundPayload, FullPayload, SentinelPayload}

\* what the HTTP request of _fetch_from_omdb does
Failure == [ok |-> FALSE, body |-> EmptyDict]
Answers(payloads) == {[ok |-> TRUE, body |-> d] : d \in payloads}
Outcomes == {Failure} \cup Answers(Payloads)

\* keyword arguments of update_movie, and the forms posted to /update
AllFields == [k \in allowed |->
                IF k = "year" THEN <<"2", "0", "1", "0">>
                ELSE IF k = "name" THEN <<"Z">> ELSE <<"y">>]

BlankFields == [k \in allowed |->
                  IF k \in {"name", "year", "plot", "genre"} THEN <<>> ELSE None]

ForeignFields == [id |-> <<"9">>, user_id |-> <<"9">>, imdb_id |-> <<"j">>,
                  plot |-> <<"y">>]

BadYearFields == [year |-> <<"a", "b", "c">>, name |-> <<"Z">>]

YearFields == [year |-> <<"2", "0", "1", "0">>]

RangeFields == [year |-> <<"1", "9", "9", "0", "-", "1", "9", "9", "3">>,
                director |-> <<>>]

FieldInputs == {AllFields, BlankFields, ForeignFields, BadYearFields, YearFields,
                RangeFields}

MovieIds == 1 .. MaxMovieId

UserIds == {u.id : u \in users}

\* ----------------------------------------------------------------- history
NoCall == [op |-> "none", user |-> 0, mid |-> 0, name |-> None,
           password |-> None, title |-> None, fields |-> EmptyDict,
           data |-> EmptyDict, fetch |-> "none", commit |-> "none",
           error |-> "", status |-> 0, result |-> 0]

Called(op, user, mid, r) ==
    [NoCall EXCEPT !.op = op, !.user = user, !.mid = mid, !.data = r.data,
                   !.fetch = r.fetch, !.commit = r.commit, !.error = r.error,
                   !.status = status_code(r.error), !.result = r.result]

\* the rows a call stores; a call that would pass the bound of the model is
\* left out (the users are bounded by the names the calls draw from)
Store(r) ==
    /\ \A m \in r.movies : m.id <= MaxMovieId
    /\ users' = r.users
    /\ movies' = r.movies

\* session.commit() is drawn to succeed or fail in the calls that reach it
Commits(r) == IF r.commit = "none" THEN {TRUE} ELSE BOOLEAN

\* the request is drawn from outcomes in the calls that send it
Requests(r, outcomes) == IF r.fetch = "none" THEN {Failure} ELSE outcomes

InitWith(keys) ==
    /\ omdb_key \in keys
    /\ users = {}
    /\ movies = {}
    /\ loggedIn = {}
    /\ registered = {}
    /\ last = NoCall

\* ------------------------------------------------- calls of the DataManager
DM_register_user(names, passwords, salts) ==
    \E n \in names, p \in passwords :
      \E salt \in salts, c \in Commits(register_user(n, p, "s1", TRUE)) :
        LET r == register_user(n, p, salt, c)
        IN  /\ Store(r)
            /\ registered' = IF r.error = "" THEN registered \cup {<<n, p>>}
                             ELSE registered
            /\ last' = [Called("register_user", 0, 0, r)
                          EXCEPT !.name = n, !.password = p]
            /\ UNCHANGED <<omdb_key, loggedIn>>

\* check_password_hash is given a str, as login gives it
DM_authenticate(names, passwords) ==
    \E n \in names, p \in passwords \ {None} :
        LET id == authenticate(n, p)
        IN  /\ last' = [Called("authenticate", 0, 0,
                               IF id = 0 THEN Raise("AuthError")
                               ELSE [Raise("") EXCEPT !.result = id])
                          EXCEPT !.name = n, !.password = p]
            /\ UNCHANGED <<omdb_key, users, movies, loggedIn, registered>>

DM_get_movies ==
    \E u \in UserIds :
        /\ last' = [Called("get_movies", u, 0, Raise(""))
                      EXCEPT !.result = Len(get_movies(u))]
        /\ UNCHANGED <<omdb_key, users, movies, loggedIn, registered>>

DM_add_movie_by_title(titles, outcomes) ==
    \E u \in UserIds, t \in titles :
      \E o \in Requests(add_movie_by_title(u, t, Failure, TRUE), outcomes) :
        \E c \in Commits(add_movie_by_title(u, t, o, TRUE)) :
          LET r == add_movie_by_title(u, t, o, c)
          IN  /\ Store(r)
              /\ last' = [Called("add_movie_by_title", u, r.result, r)
                            EXCEPT !.title = t]
              /\ UNCHANGED <<omdb_key, loggedIn, registered>>

DM_refresh_movie_from_omdb(outcomes) ==
    \E id \in MovieIds :
      \E o \in Requests(refresh_movie_from_omdb(id, Failure, TRUE), outcomes) :
        \E c \in Commits(refresh_movie_from_omdb(id, o, TRUE)) :
          LET r == refresh_movie_from_omdb(id, o, c)
          IN  /\ Store(r)
              /\ last' = Called("refresh_movie_from_omdb", 0, id, r)
              /\ UNCHANGED <<omdb_key, loggedIn, registered>>

DM_update_movie(fieldsets) ==
    \E id \in MovieIds, f \in fieldsets :
      \E c \in Commits(update_movie(id, f, TRUE)) :
        LET r == update_movie(id, f, c)
        IN  /\ Store(r)
            /\ last' = [Called("update_movie", 0, id, r) EXCEPT !.fields = f]
            /\ UNCHANGED <<omdb_key, loggedIn, registered>>

DM_remove_favorite ==
    \E u \in UserIds, id \in MovieIds :
      \E c \in Commits(remove_favorite(u, id, TRUE)) :
        LET r == remove_favorite(u, id, c)
        IN  /\ Store(r)
            /\ last' = Called("remove_favorite", u, id, r)
            /\ UNCHANGED <<omdb_key, loggedIn, registered>>

\* ------------------------------------------------ request handlers (app.py)
\* the users login_required lets through: a session whose load_user finds a row
CurrentUsers == {u \in loggedIn : get_user(u) # {}}

\* POST /register
register(names, passwords, salts) ==
    \E n \in names, p \in passwords :
      LET username == Strip(Or(n, <<>>))
          password == Or(p, <<>>)
      IN  \E salt \in salts,
             c \in Commits(register_user(username, password, "s1", TRUE)) :
            LET r == register_user(username, password, salt, c)
            IN  /\ Store(r)
                /\ registered' = IF r.error = ""
                                 THEN registered \cup {<<username, password>>}
                                 ELSE registered
                /\ loggedIn' = IF r.error = "" THEN loggedIn \cup {r.result}
                               ELSE loggedIn
                /\ last' = [Called("register", 0, 0, r)
                              EXCEPT !.name = username, !.password = password]
                /\ UNCHANGED omdb_key

\* POST /login
login(names, passwords) ==
    \E n \in names, p \in passwords :
      LET username == Strip(Or(n, <<>>))
          password == Or(p, <<>>)
          id == authenticate(username, password)
      IN  /\ loggedIn' = IF id = 0 THEN loggedIn ELSE loggedIn \cup {id}
          /\ last' = [Called("login", 0, 0,
                             IF id = 0 THEN Raise("AuthError")
                             ELSE [Raise("") EXCEPT !.result = id])
                        EXCEPT !.name = username, !.password = password]
          /\ UNCHANGED <<omdb_key, users, movies, registered>>

\* GET /logout
logout ==
    \E u \in loggedIn :
        /\ loggedIn' = loggedIn \ {u}
        /\ last' = Called("logout", u, 0, Raise(""))
        /\ UNCHANGED <<omdb_key, users, movies, registered>>

\* GET /me/movies
my_movies ==
    \E u \in CurrentUsers :
        /\ last' = [Called("my_movies", u, 0, Raise(""))
                      EXCEPT !.result = Len(get_movies(u))]
        /\ UNCHANGED <<omdb_key, users, movies, loggedIn, registered>>

\* POST /me/movies
my_movies_add(titles, outcomes) ==
    \E u \in CurrentUsers, t \in titles :
      LET title == Strip(Or(t, <<>>))
      IN  IF ~Truthy(title)
          THEN /\ last' = [NoCall EXCEPT !.op = "my_movies_add", !.user = u,
                                         !.title = title, !.status = 400]
               /\ UNCHANGED <<omdb_key, users, movies, loggedIn, registered>>
          ELSE \E o \in Requests(add_movie_by_title(u, title, Failure, TRUE),
                                 outcomes) :
                 \E c \in Commits(add_movie_by_title(u, title, o, TRUE)) :
                   LET r == add_movie_by_title(u, title, o, c)
                   IN  /\ Store(r)
                       /\ last' = [Called("my_movies_add", u, r.result, r)
                                     EXCEPT !.title = title]
                       /\ UNCHANGED <<omdb_key, loggedIn, registered>>

\* POST /me/movies/<movie_id>/update
my_movies_update(forms) ==
    \E u \in CurrentUsers, id \in MovieIds, form \in forms :
      LET fields == [k \in allowed |-> Get(form, k)]
      IN  \E c \in Commits(update_movie(id, fields, TRUE)) :
            LET r == update_movie(id, fields, c)
            IN  /\ Store(r)
                /\ last' = [Called("my_movies_update", u, id, r)
                              EXCEPT !.fields = fields]
                /\ UNCHANGED <<omdb_key, loggedIn, registered>>

\* POST /me/movies/<movie_id>/refresh
my_movies_refresh(outcomes) ==
    \E u \in CurrentUsers, id \in MovieIds :
      \E o \in Requests(refresh_movie_from_omdb(id, Failure, TRUE), outcomes) :
        \E c \in Commits(refresh_movie_from_omdb(id, o, TRUE)) :
          LET r == refresh_movie_from_omdb(id, o, c)
          IN  /\ Store(r)
              /\ last' = Called("my_movies_refresh", u, id, r)
              /\ UNCHANGED <<omdb_key, loggedIn, registered>>

\* POST /me/movies/<movie_id>/delete
my_movies_delete ==
    \E u \in CurrentUsers, id \in MovieIds :
      \E c \in Commits(remove_favorite(u, id, TRUE)) :
        LET r == remove_favorite(u, id, c)
        IN  /\ Store(r)
            /\ last' = Called("my_movies_delete", u, id, r)
            /\ UNCHANGED <<omdb_key, loggedIn, registered>>

\* -------------------------------------------------------- specifications
\* Accounts: every name, password and salt; movies are added without a key.
InitUsers == InitWith({None})

NextUsers ==
    \/ DM_register_user(NameInputs, PasswordInputs \ {<<"q">>}, Salts)
    \/ DM_authenticate(NameInputs, PasswordInputs)
    \/ DM_get_movies
    \/ DM_add_movie_by_title({<<"T">>}, Outcomes)
    \/ DM_refresh_movie_from_omdb(Outcomes)
    \/ DM_update_movie({BlankFields})
    \/ DM_remove_favorite

SpecUsers == InitUsers /\ [][NextUsers]_vars

\* Favorites: two accounts, movies added without a key, edited and removed.
InitStore == InitWith({None})

NextStore ==
    \/ DM_register_user({<<"a">>, <<"b">>}, {<<"p">>}, {"s1"})
    \/ DM_authenticate({<<"a">>}, {<<"p">>, <<"q">>})
    \/ DM_get_movies
    \/ DM_add_movie_by_title(TitleInputs, Outcomes)
    \/ DM_refresh_movie_from_omdb(Outcomes)
    \/ DM_update_movie({AllFields, BlankFields, ForeignFields})
    \/ DM_remove_favorite

SpecStore == InitStore /\ [][NextStore]_vars

\* Metadata: one account, with and without a key, every answer of the provider.
InitOmdb == InitWith(OmdbKeys)

NextOmdb ==
    \/ DM_register_user({<<"a">>}, {<<"p">>}, {"s1"})
    \/ DM_authenticate({<<"a">>}, {<<"p">>, <<"q">>})
    \/ DM_get_movies
    \/ DM_add_movie_by_title({<<"T">>}, Outcomes)
    \/ DM_refresh_movie_from_omdb(Outcomes)
    \/ DM_update_movie({BadYearFields, YearFields, RangeFields})
    \/ DM_remove_favorite

SpecOmdb == InitOmdb /\ [][NextOmdb]_vars

\* Requests: two accounts and their sessions, through the handlers of app.py.
InitApp == InitWith(OmdbKeys)

NextApp ==
    \/ register({<<"a">>, <<" ", "b">>}, {None, <<"p">>}, {"s1"})
    \/ login({<<"a">>, <<"b">>}, {<<"p">>, <<"q">>})
    \/ logout
    \/ my_movies
    \/ my_movies_add({<<" ">>, <<"T">>}, {Failure} \cup Answers({FullPayload}))
    \/ my_movies_update({AllFields, BlankFields})
    \/ my_movies_refresh({Failure} \cup Answers({FullPayload}))
    \/ my_movies_delete

SpecApp == InitApp /\ [][NextApp]_vars

\* ------------------------------------------------------------------ claims
Sentinel == <<"N", "/", "A">>

\* the catalog identity of a row: the external id, else the pair (title, year)
CatalogIdentity(m) == IF Truthy(m.imdb_id) THEN <<"imdb", m.imdb_id>>
                      ELSE <<"title", m.name, m.year>>

\* C1: add_movie_by_title is an idempotent upsert: a call for a user who
\* already has a row of the same catalog identity adds no row, so the user
\* keeps exactly one entry for that movie.
C1_AddIsIdempotent ==
    [][last'.op = "add_movie_by_title" /\ last'.error = ""
         => \A m \in movies' \ movies :
              ~\E q \in movies : /\ q.user_id = m.user_id
                                 /\ CatalogIdentity(q) = CatalogIdentity(m)]_vars

\* C2: register_user with a name that, trimmed, is the name of a stored user
\* fails with ValidationError whatever the password, and stores nothing; no
\* two stored users share a name.
C2_DuplicateNameRejected ==
    [][/\ (/\ last'.op = "register_user"
           /\ \E u \in users : u.name = Strip(Or(last'.name, <<>>)))
          => /\ last'.error = "ValidationError"
             /\ users' = users
             /\ movies' = movies
       /\ \A u1, u2 \in users' : u1.name = u2.name => u1 = u2]_vars

C2_Witness ==
    /\ last.op = "register_user"
    /\ last.name = <<" ", "a", " ">>
    /\ last.password = None
    /\ last.error = "ValidationError"
    /\ \E u \in users : u.name = <<"a">>
    /\ Cardinality(users) = 2

\* C3: every <<name, password>> that register_user accepted authenticates, in
\* every later state, as the user whose name is the trimmed name.
C3_RegisteredAuthenticates ==
    \A cred \in registered :
        /\ authenticate(cred[1], cred[2]) # 0
        /\ \E u \in users : /\ u.id = authenticate(cred[1], cred[2])
                            /\ u.name = Strip(cred[1])

C3_Witness ==
    /\ last.op = "authenticate"
    /\ last.name = <<" ", "a", " ">>
    /\ <<last.name, last.password>> \in registered
    /\ last.error = ""
    /\ \E u \in users : u.id = last.result /\ u.name = <<"a">>
    /\ Cardinality(users) = 2
    /\ movies # {}

\* C4: remove_favorite(u, m) fails with NotFoundError and changes nothing when
\* u has no favorite m (no such movie, another user's movie, a repeated
\* removal); when u owns m no other row is removed.
C4_RemoveFavorite ==
    [][last'.op = "remove_favorite"
         => /\ users' = users
            /\ IF \E m \in movies : m.id = last'.mid /\ m.user_id = last'.user
               THEN /\ movies' \subseteq movies
                    /\ \A m \in movies \ movies' :
                         m.id = last'.mid /\ m.user_id = last'.user
                    /\ last'.error = ""
                         => ~\E m \in movies' : m.id = last'.mid
               ELSE /\ last'.error = "NotFoundError"
                    /\ movies' = movies
            /\ (/\ last.op = "remove_favorite" /\ last.error = ""
                /\ last'.user = last.user /\ last'.mid = last.mid)
                 => last'.error = "NotFoundError"]_vars

C4_Witness ==
    /\ last.op = "remove_favorite"
    /\ last.error = "NotFoundError"
    /\ \E m \in movies : m.id = last.mid /\ m.user_id # last.user
    /\ \E m \in movies : m.user_id = last.user

\* C5: update_movie leaves a field as stored when the value supplied for it is
\* None or the empty string, and when its key is outside the allow-list.
C5_UpdateNeverBlanks ==
    [][last'.op = "update_movie"
         => \A m \in movies : m.id = last'.mid
              => \E m2 \in movies' :
                   /\ m2.id = m.id
                   /\ \A k \in DOMAIN m :
                        (\/ k \notin allowed
                         \/ k \notin DOMAIN last'.fields
                         \/ last'.fields[k] \in {None, <<>>})
                          => m2[k] = m[k]]_vars

C5_Witness ==
    /\ last.op = "update_movie"
    /\ last.fields = BlankFields
    /\ last.error = ""
    /\ \E m \in movies : /\ m.id = last.mid
                         /\ \A k \in allowed \ {"year"} : Truthy(m[k])
                         /\ m.year # NoYear

\* what the claim counts as "the provider has no value": omitted, empty, or
\* the sentinel in any letter case
ProviderHasNone(v) == v = None \/ v = <<>> \/ Upper(v) = Sentinel

\* C6: refresh_movie_from_omdb keeps the stored value of every field, name
\* included, that the provider omits, returns empty or returns as "N/A" in any
\* letter case.
C6_RefreshIsFieldMerge ==
    [][last'.op = "refresh_movie_from_omdb" /\ last'.error = ""
         => \A m \in movies : m.id = last'.mid
              => \E m2 \in movies' :
                   /\ m2.id = m.id
                   /\ \A k \in allowed \cup {"imdb_id"} :
                        ProviderHasNone(Get(last'.data, OmdbKey(k)))
                          => m2[k] = m[k]]_vars

\* C7: a call whose commit fails ends with PersistenceError (500), and the
\* stored rows are those before the call.
C7_CommitFailureIsPersistenceError ==
    [][last'.commit = "fail"
         => /\ last'.error = "PersistenceError"
            /\ last'.status = 500
            /\ users' = users
            /\ movies' = movies]_vars

\* C8: with a key, a failed request ends add and refresh with
\* ExternalServiceError (502) and nothing stored; without a key, add stores a
\* minimal movie under the supplied title.
C8_ProviderFailureIs502 ==
    [][/\ last'.fetch = "fail"
          => /\ last'.error = "ExternalServiceError"
             /\ last'.status = 502
             /\ movies' = movies
       /\ (/\ last'.op = "add_movie_by_title" /\ ~Truthy(omdb_key)
           /\ last'.error = "")
          => \E m \in movies' \ movies :
               /\ m.name = Strip(last'.title)
               /\ m.year = NoYear
               /\ \A k \in TextFields \cup {"imdb_id"} : m[k] = None]_vars

\* C9: update_movie with a year that is not empty and does not parse fails
\* with ValidationError and changes no row; the year "2010" is stored as 2010.
\* (Calls whose commit fails are left to C7.)
C9_BadYearIsValidationError ==
    [][(/\ last'.op = "update_movie"
        /\ "year" \in DOMAIN last'.fields
        /\ last'.commit # "fail")
         => /\ (/\ Truthy(last'.fields.year)
                /\ parse_year(last'.fields.year) = NoYear
                /\ \E m \in movies : m.id = last'.mid)
               => /\ last'.error = "ValidationError"
                  /\ movies' = movies
            /\ (last'.fields.year = <<"2", "0", "1", "0">> /\ last'.error = "")
               => \E m \in movies' : m.id = last'.mid /\ m.year = 2010]_vars

\* C10: a request of a logged-in user changes no movie of another user, and it
\* fails with NotFoundError when it names a movie of another user.
\* (Requests whose commit fails are left to C7.)
C10_PerUserIsolation ==
    [][(/\ last'.op \in {"my_movies_add", "my_movies_update",
                         "my_movies_refresh", "my_movies_delete"}
        /\ last'.commit # "fail")
         => /\ \A v \in UserIds \ {last'.user} :
                 {m \in movies' : m.user_id = v} = {m \in movies : m.user_id = v}
            /\ (\E m \in movies : m.id = last'.mid /\ m.user_id # last'.user)
                 => last'.error = "NotFoundError"]_vars

====
